---- MODULE Spec2Model ----
(***************************************************************************)
(* Model of rokit's `install` subcommand (src/cli/install.rs), of its      *)
(* `self-update` subcommand (src/cli/self_update.rs) and of the Dispatcher *)
(* (src/runner/mod.rs), each with a specification of its own: Spec,        *)
(* SelfUpdateSpec and RunnerSpec.                                          *)
(*                                                                         *)
(* One install run gathers the (alias, spec) pairs of the discovered       *)
(* manifests, passes the specs through the trust gate, polls one future    *)
(* per spec from a FuturesUnordered through try_collect, and then links    *)
(* every alias.  The futures are not spawned tasks: they make progress     *)
(* only while try_collect polls them, and try_collect returns on the first *)
(* Err, which drops the stream and every future still pending in it.       *)
(***************************************************************************)
EXTENDS Integers, Sequences, FiniteSets, TLC

\* ---------------------------------------------------------------- bounds
MaxTools == 3

\* ------------------------------------------------------------- universe
ToolIds == {"a", "b"}

ToolSpecs ==
    { [id |-> "a", version |-> 1],
      [id |-> "a", version |-> 2],
      [id |-> "b", version |-> 1] }

ToolAliases == {"x", "z"}

\* The (alias, spec) pairs a manifest may declare: two manifests may bind the
\* alias "x" to different versions of the same tool.
ManifestEntries ==
    { <<"x", [id |-> "a", version |-> 1]>>,
      <<"x", [id |-> "a", version |-> 2]>>,
      <<"z", [id |-> "b", version |-> 1]>> }

\* Ord for ToolSpec (id first, then version) and for ToolAlias.
SpecOrd == [s \in ToolSpecs |-> (IF s.id = "a" THEN 0 ELSE 2) + s.version]
AliasOrd == [a \in ToolAliases |-> IF a = "x" THEN 1 ELSE 2]

Range(seq) == {seq[i] : i \in DOMAIN seq}

\* Iteration over a BTreeSet: ascending, one occurrence of each element.
RECURSIVE BTreeSetIter(_, _)
BTreeSetIter(S, ord) ==
    IF S = {} THEN <<>>
    ELSE LET m == CHOOSE x \in S : \A y \in S : ord[x] <= ord[y]
         IN  <<m>> \o BTreeSetIter(S \ {m}, ord)

\* Bounded sequences of manifest entries: the flattened `tools` vector.  Both
\* collections made from it are sets, so one order stands for all of them.
RECURSIVE SeqsUpTo(_, _)
SeqsUpTo(S, n) ==
    IF n = 0 THEN {<<>>}
    ELSE LET shorter == SeqsUpTo(S, n - 1)
             Sorted(q) == \A k \in 1..(Len(q) - 1) :
                              SpecOrd[q[k][2]] <= SpecOrd[q[k + 1][2]]
         IN  shorter \cup
             {q \in {Append(r, e) : r \in shorter, e \in S} :
                 Len(q) = n /\ Sorted(q)}

ToolsInputs == SeqsUpTo(ManifestEntries, MaxTools)

\* ---------------------------------------------------------------- state
VARIABLES
    trusted,          \* Ledger: trusted ToolIds
    installed,        \* Ledger: installed ToolSpecs
    storage,          \* Storage: specs whose bytes are at tool_path(spec)
    links,            \* Storage: aliases that have a Link
    tool_aliases,     \* this run's deduplicated aliases, kept for step 4
    declared,         \* the (alias, spec) pairs this run's manifests declared
    dup,              \* some pair was declared by more than one manifest
    no_trust_check,   \* flag of this run
    force,            \* flag of this run
    phase,            \* "idle" (no process), "prompt", "install", "link",
                      \* or "ended" (run has returned)
    trusted_specs,    \* partition result kept across the prompt's await
    untrusted_specs,  \* the batch passed to prompt_for_trust_specs
    newly_trusted_specs, \* what prompt_for_trust_specs returned
    tasks,            \* the per-spec futures: sequence of [spec, pc]
    linkTasks,        \* the per-alias link futures: sequence of [alias, pc]
    result,           \* "none" (running), "ok", "err", or "crashed"
    error,            \* <<kind, subject>> of the error the run returned
    start,            \* Ledger/Storage as they were when the run started
    after,            \* how the previous run ended if it had the same manifests
    \* `rokit self-update` (src/cli/self_update.rs)
    update_pc,        \* where SelfUpdateSubcommand::run is
    update_force,     \* self.force
    version_current,  \* version of the running binary
    version_latest,   \* version of the latest release, once fetched
    rokit_contents,   \* Storage: version of rokit's own binary
    link_contents,    \* Storage: version of the binary the Links run
    update_calls,     \* Storage calls made by this self-update, in order
    update_error,     \* what the self-update returned as its error
    \* the Dispatcher (src/runner/mod.rs)
    runner_pc,        \* the Dispatcher's state
    exe_name,         \* name the process was invoked as
    args,             \* the process's argument vector, its own name first
    child_args,       \* arguments handed to the target
    manifests,        \* (alias, spec) pairs of the manifests in scope
    runner_alias,     \* alias parsed from exe_name
    runner_spec,      \* spec found by discover_tool_spec
    path,             \* tool_path(spec)
    child,            \* the spawned target: "none", "running", "exited", "signaled"
    child_code,       \* exit code of a child that exited
    received,         \* signals the Dispatcher received while waiting
    forwarded,        \* signals the Dispatcher sent on to the child
    exit_code,        \* code the Dispatcher's process exited with
    runner_error      \* error Runner::run returned

vars == <<trusted, installed, storage, links, tool_aliases, declared, dup,
          no_trust_check, force, phase, trusted_specs, untrusted_specs,
          newly_trusted_specs, tasks,
          linkTasks, result, error, start, after>>

inputs == <<tool_aliases, declared, dup, no_trust_check, force, start, after>>

persistent == <<trusted, installed, storage, links>>

update_vars == <<update_pc, update_force, version_current, version_latest,
                 rokit_contents, link_contents, update_calls, update_error>>

runner_vars == <<runner_pc, exe_name, args, child_args, manifests, runner_alias,
                 runner_spec, path, child, child_code, received, forwarded,
                 exit_code, runner_error>>

\* What an install run does not touch.
outside == <<update_vars, runner_vars>>

all_vars == <<vars, update_vars, runner_vars>>

NoError == <<"none", "none">>

Snapshot == [trusted |-> trusted, installed |-> installed,
             storage |-> storage, links |-> links]

\* ------------------------------------------------------- Ledger, Storage
is_trusted(id) == id \in trusted
is_installed(spec) == spec \in installed
add_installed(spec) == installed \cup {spec}
replace_tool_contents(spec) == storage \cup {spec}
create_tool_link(alias) == links \cup {alias}

\* ------------------------------------------------ steps 1 and 2: gather
\* tool_aliases and tool_specs are collected into BTreeSets.
collect_aliases(t) == BTreeSetIter({t[i][1] : i \in DOMAIN t}, AliasOrd)

\* Variant: the specs are collected into a Vec, duplicates and all.
collect_specs_Vec(t) == [i \in DOMAIN t |-> t[i][2]]

collect_specs(t) == BTreeSetIter({t[i][2] : i \in DOMAIN t}, SpecOrd)

\* partition(|spec| tool_cache.is_trusted(&spec.into_id()))
partition_trusted(specs) ==
    LET Test(s) == is_trusted(s.id) IN SelectSeq(specs, Test)

\* Variant: an installed spec is never put before the user again.
partition_untrusted_SkipInstalled(specs) ==
    LET Test(s) == ~is_trusted(s.id) /\ ~is_installed(s) IN SelectSeq(specs, Test)

\* Variant: a spec counts as untrusted unless it is installed.
partition_untrusted_ByInstalled(specs) ==
    LET Test(s) == ~is_installed(s) IN SelectSeq(specs, Test)

partition_untrusted(specs) ==
    LET Test(s) == ~is_trusted(s.id) IN SelectSeq(specs, Test)

\* One future per spec of the install set, none polled yet.
NewTasks(specs) == [i \in DOMAIN specs |-> [spec |-> specs[i], pc |-> "new"]]

NewLinkTasks(aliases) == [i \in DOMAIN aliases |-> [alias |-> aliases[i], pc |-> "new"]]

NoVersion == <<>>

\* No self-update process exists.
NoUpdate ==
    /\ update_pc = "idle"
    /\ update_force = FALSE
    /\ version_current = NoVersion
    /\ version_latest = NoVersion
    /\ update_calls = <<>>
    /\ update_error = "none"

NoSpec == [id |-> "none", version |-> 0]

NoPath == <<>>

\* No Dispatcher process exists.
NoDispatch ==
    /\ runner_pc = "idle"
    /\ exe_name = "none"
    /\ args = <<>>
    /\ child_args = <<>>
    /\ manifests = {}
    /\ runner_alias = "none"
    /\ runner_spec = NoSpec
    /\ path = NoPath
    /\ child = "none"
    /\ child_code = 0
    /\ received = 0
    /\ forwarded = 0
    /\ exit_code = 0
    /\ runner_error = "none"

Init ==
    /\ trusted = {}
    /\ installed = {}
    /\ storage = {}
    /\ links = {}
    /\ tool_aliases = <<>>
    /\ declared = {}
    /\ dup = FALSE
    /\ no_trust_check = FALSE
    /\ force = FALSE
    /\ phase = "idle"
    /\ trusted_specs = <<>>
    /\ untrusted_specs = <<>>
    /\ newly_trusted_specs = <<>>
    /\ tasks = <<>>
    /\ linkTasks = <<>>
    /\ result = "none"
    /\ error = NoError
    /\ start = [trusted |-> {}, installed |-> {}, storage |-> {}, links |-> {}]
    /\ after = "other"
    /\ NoUpdate
    /\ rokit_contents = <<0, 0>>
    /\ link_contents = <<0, 0>>
    /\ NoDispatch

\* InstallSubcommand::run up to the first await that matters: the trust
\* prompt when trust is checked, the install stream otherwise.  `ended` is
\* how the run before this one ended.
Begin(t, ntc, f, ended) ==
    /\ tool_aliases' = collect_aliases(t)
    /\ declared' = Range(t)
    /\ dup' = (Cardinality(Range(t)) < Len(t))
    /\ no_trust_check' = ntc
    /\ force' = f
    /\ result' = "none"
    /\ error' = NoError
    /\ start' = Snapshot
    /\ after' = IF Range(t) = declared /\ ended # "none" THEN ended ELSE "other"
    /\ linkTasks' = <<>>
    /\ newly_trusted_specs' = <<>>
    /\ IF ntc
       THEN /\ phase' = "install"
            /\ trusted_specs' = <<>>
            /\ untrusted_specs' = <<>>
            /\ tasks' = NewTasks(collect_specs(t))
       ELSE /\ phase' = "prompt"
            /\ trusted_specs' = partition_trusted(collect_specs(t))
            /\ untrusted_specs' = partition_untrusted(collect_specs(t))
            /\ tasks' = <<>>
    /\ UNCHANGED <<persistent, outside>>

\* `rokit install` is invoked.
StartRun(t, ntc, f) ==
    /\ phase = "idle"
    /\ Begin(t, ntc, f, result)

\* The process is gone: what the run held in memory is gone with it; the
\* Ledger and Storage stay.
Gone(how) ==
    /\ phase' = "idle"
    /\ result' = how
    /\ error' = NoError
    /\ tool_aliases' = <<>>
    /\ dup' = FALSE
    /\ no_trust_check' = FALSE
    /\ force' = FALSE
    /\ trusted_specs' = <<>>
    /\ untrusted_specs' = <<>>
    /\ newly_trusted_specs' = <<>>
    /\ tasks' = <<>>
    /\ linkTasks' = <<>>
    /\ start' = Snapshot
    /\ after' = "other"
    /\ UNCHANGED <<persistent, declared, outside>>

\* run has returned and the process exits.
Exit ==
    /\ phase = "ended"
    /\ Gone(result)

\* The process dies in the middle of a run.
Crash ==
    /\ phase \in {"prompt", "install", "link"}
    /\ Gone("crashed")

\* prompt_for_trust_specs hands back the accepted specs of the batch.
prompt_for_trust_specs(batch, accepted) ==
    LET Test(s) == s \in accepted IN SelectSeq(batch, Test)

\* for spec in &newly_trusted_specs { tool_cache.add_trust(spec.into_id()) }
RECURSIVE TrustEach(_, _)
TrustEach(specs, ids) ==
    IF specs = <<>> THEN ids
    ELSE TrustEach(Tail(specs), ids \cup {Head(specs).id})

\* Variant: the whole untrusted batch is chained in, not the accepted specs.
install_set_WholeBatch(newly) ==
    BTreeSetIter(Range(trusted_specs \o untrusted_specs), SpecOrd)

\* trusted_specs.iter().chain(newly_trusted_specs.iter()).collect::<BTreeSet<_>>()
install_set(newly) == BTreeSetIter(Range(trusted_specs \o newly), SpecOrd)

\* The prompt returns Ok with the specs the user accepted.
PromptAnswer(accepted) ==
    /\ phase = "prompt"
    /\ accepted \subseteq Range(untrusted_specs)
    /\ LET newly == prompt_for_trust_specs(untrusted_specs, accepted)
       IN  /\ newly_trusted_specs' = newly
           /\ trusted' = TrustEach(newly, trusted)
           /\ tasks' = NewTasks(install_set(newly))
    /\ phase' = "install"
    /\ UNCHANGED <<installed, storage, links, trusted_specs, untrusted_specs,
                   linkTasks, result, error, inputs, outside>>

\* Variant: the batch is recorded as trusted before the prompt's outcome is known.
PromptFail_TrustsBatch ==
    /\ phase = "prompt"
    /\ phase' = "ended"
    /\ result' = "err"
    /\ error' = <<"prompt", "none">>
    /\ trusted' = TrustEach(untrusted_specs, trusted)
    /\ UNCHANGED <<installed, storage, links, trusted_specs, untrusted_specs,
                   newly_trusted_specs, tasks, linkTasks, inputs, outside>>

\* The prompt returns Err and `?` returns it from run.
PromptFail ==
    /\ phase = "prompt"
    /\ phase' = "ended"
    /\ result' = "err"
    /\ error' = <<"prompt", "none">>
    /\ UNCHANGED <<persistent, trusted_specs, untrusted_specs,
                   newly_trusted_specs, tasks, linkTasks, inputs, outside>>

\* ------------------------------------------- step 3: the install stream
\* Variant: the installed check is missing.
skips_Never(spec) == FALSE

\* Variant: the installed check does not look at force.
skips_IgnoresForce(spec) == is_installed(spec)

\* if tool_cache.is_installed(&tool_spec) && !force { return Ok(tool_spec) }
skips(spec) == is_installed(spec) /\ ~force

SetPc(i, pc) == [tasks EXCEPT ![i].pc = pc]

\* What dropping the stream does to a future: a finished one has already
\* yielded its value; a pending one is never polled again.
Finished(task) == task.pc \in {"done", "skipped"}

Dropped(task) ==
    IF Finished(task) THEN task ELSE [task EXCEPT !.pc = "dropped"]

\* Variant: the futures still pending are left as they are, not dropped.
FailRun_NoDrop(i, kind) ==
    /\ tasks' = SetPc(i, "failed")
    /\ phase' = "ended"
    /\ result' = "err"
    /\ error' = <<kind, tasks[i].spec>>

\* Variant: a failing pipeline is skipped and the stream goes on.
FailRun_Skip(i, kind) ==
    /\ tasks' = SetPc(i, "skipped")
    /\ UNCHANGED <<phase, result, error>>

\* Variant: the failure is recorded but the stream goes on being polled, as
\* it would with spawned tasks.
FailRun_KeepPolling(i, kind) ==
    /\ tasks' = SetPc(i, "failed")
    /\ phase' = phase
    /\ result' = "err"
    /\ error' = <<kind, tasks[i].spec>>

\* try_collect yields the first Err; `.await?` returns it from run.
FailRun(i, kind) ==
    /\ tasks' = [j \in DOMAIN tasks |->
                    IF j = i THEN [tasks[j] EXCEPT !.pc = "failed"]
                    ELSE Dropped(tasks[j])]
    /\ phase' = "ended"
    /\ result' = "err"
    /\ error' = <<kind, tasks[i].spec>>

TaskFrame == <<trusted_specs, untrusted_specs, newly_trusted_specs, linkTasks,
               inputs, outside>>

Polled(i, pc) == phase = "install" /\ i \in DOMAIN tasks /\ tasks[i].pc = pc

\* First poll of a future: the installed check, then the release lookup.
FirstPoll(i) ==
    /\ Polled(i, "new")
    /\ IF skips(tasks[i].spec)
       THEN tasks' = SetPc(i, "skipped")
       ELSE tasks' = SetPc(i, "resolve")
    /\ UNCHANGED <<persistent, phase, result, error, TaskFrame>>

\* get_specific_release returned artifacts and one is compatible.
ResolveOk(i) ==
    /\ Polled(i, "resolve")
    /\ tasks' = SetPc(i, "download")
    /\ UNCHANGED <<persistent, phase, result, error, TaskFrame>>

ResolveFail(i) ==
    /\ Polled(i, "resolve")
    /\ FailRun(i, "release")
    /\ UNCHANGED <<persistent, TaskFrame>>

\* get_specific_release returned artifacts, none compatible.
SelectFail(i) ==
    /\ Polled(i, "resolve")
    /\ FailRun(i, "no_compatible_artifact")
    /\ UNCHANGED <<persistent, TaskFrame>>

DownloadOk(i) ==
    /\ Polled(i, "download")
    /\ tasks' = SetPc(i, "extract")
    /\ UNCHANGED <<persistent, phase, result, error, TaskFrame>>

DownloadFail(i) ==
    /\ Polled(i, "download")
    /\ FailRun(i, "download")
    /\ UNCHANGED <<persistent, TaskFrame>>

\* Variant: the spec is marked installed before its bytes are written.
ExtractOk_MarksEarly(i) ==
    /\ Polled(i, "extract")
    /\ installed' = add_installed(tasks[i].spec)
    /\ tasks' = SetPc(i, "write")
    /\ UNCHANGED <<trusted, storage, links, phase, result, error, TaskFrame>>

\* extract_contents returned the binary; replace_tool_contents is called.
ExtractOk(i) ==
    /\ Polled(i, "extract")
    /\ tasks' = SetPc(i, "write")
    /\ UNCHANGED <<persistent, phase, result, error, TaskFrame>>

ExtractFail(i) ==
    /\ Polled(i, "extract")
    /\ FailRun(i, "extract")
    /\ UNCHANGED <<persistent, TaskFrame>>

\* Variant: the task does not mark its spec installed.
WriteOk_NoMark(i) ==
    /\ Polled(i, "write")
    /\ storage' = replace_tool_contents(tasks[i].spec)
    /\ tasks' = SetPc(i, "done")
    /\ UNCHANGED <<trusted, installed, links, phase, result, error, TaskFrame>>

\* replace_tool_contents returned Ok: the bytes are at tool_path(spec); the
\* same poll goes on to add_installed and yields Ok(tool_spec).
WriteOk(i) ==
    /\ Polled(i, "write")
    /\ storage' = replace_tool_contents(tasks[i].spec)
    /\ installed' = add_installed(tasks[i].spec)
    /\ tasks' = SetPc(i, "done")
    /\ UNCHANGED <<trusted, links, phase, result, error, TaskFrame>>

\* Variant: a failed write takes the spec out of the installed set.
WriteFail_Unmarks(i) ==
    /\ Polled(i, "write")
    /\ FailRun(i, "write")
    /\ installed' = installed \ {tasks[i].spec}
    /\ UNCHANGED <<trusted, storage, links, TaskFrame>>

\* replace_tool_contents returned Err: the write never exposes partial bytes.
WriteFail(i) ==
    /\ Polled(i, "write")
    /\ FailRun(i, "write")
    /\ UNCHANGED <<persistent, TaskFrame>>

\* ------------------------------------------------------ step 4: linking
AllDone(ts) == \A i \in DOMAIN ts : Finished(ts[i])

\* Variant: only the aliases of the specs fetched in this run are linked.
BeginLinking_FreshOnly ==
    /\ phase = "install"
    /\ AllDone(tasks)
    /\ phase' = "link"
    /\ LET Fresh(a) == \E e \in declared, i \in DOMAIN tasks :
                          e[1] = a /\ tasks[i].spec = e[2] /\ tasks[i].pc = "done"
       IN  linkTasks' = NewLinkTasks(SelectSeq(tool_aliases, Fresh))
    /\ UNCHANGED <<persistent, trusted_specs, untrusted_specs,
                   newly_trusted_specs, tasks, result, error, inputs, outside>>

\* Variant: only the aliases that have a declared spec in the installed set
\* are linked.
BeginLinking_InstalledOnly ==
    /\ phase = "install"
    /\ AllDone(tasks)
    /\ phase' = "link"
    /\ LET Has(a) == \E e \in declared : e[1] = a /\ is_installed(e[2])
       IN  linkTasks' = NewLinkTasks(SelectSeq(tool_aliases, Has))
    /\ UNCHANGED <<persistent, trusted_specs, untrusted_specs,
                   newly_trusted_specs, tasks, result, error, inputs, outside>>

\* Variant: the link stream is built without waiting for the install stream.
BeginLinking_NoBarrier ==
    /\ phase = "install"
    /\ phase' = "link"
    /\ linkTasks' = NewLinkTasks(tool_aliases)
    /\ UNCHANGED <<persistent, trusted_specs, untrusted_specs,
                   newly_trusted_specs, tasks, result, error, inputs, outside>>

\* try_collect returned Ok(installed_specs): the link stream is built.
BeginLinking ==
    /\ phase = "install"
    /\ AllDone(tasks)
    /\ phase' = "link"
    /\ linkTasks' = NewLinkTasks(tool_aliases)
    /\ UNCHANGED <<persistent, trusted_specs, untrusted_specs,
                   newly_trusted_specs, tasks, result, error, inputs, outside>>

LinkFrame == <<trusted, installed, storage, trusted_specs, untrusted_specs,
               newly_trusted_specs, tasks, inputs, outside>>

LinkOk(j) ==
    /\ phase = "link"
    /\ j \in DOMAIN linkTasks
    /\ linkTasks[j].pc = "new"
    /\ links' = create_tool_link(linkTasks[j].alias)
    /\ linkTasks' = [linkTasks EXCEPT ![j].pc = "done"]
    /\ UNCHANGED <<phase, result, error, LinkFrame>>

LinkFail(j) ==
    /\ phase = "link"
    /\ j \in DOMAIN linkTasks
    /\ linkTasks[j].pc = "new"
    /\ linkTasks' = [k \in DOMAIN linkTasks |->
                        IF k = j THEN [linkTasks[k] EXCEPT !.pc = "failed"]
                        ELSE Dropped(linkTasks[k])]
    /\ phase' = "ended"
    /\ result' = "err"
    /\ error' = <<"link", linkTasks[j].alias>>
    /\ UNCHANGED <<links, LinkFrame>>

\* step 5: every link was made; run returns Ok(()).
Finish ==
    /\ phase = "link"
    /\ AllDone(linkTasks)
    /\ phase' = "ended"
    /\ result' = "ok"
    /\ UNCHANGED <<persistent, trusted_specs, untrusted_specs,
                   newly_trusted_specs, tasks, linkTasks, error, inputs, outside>>

Next ==
    \/ \E t \in ToolsInputs, ntc \in BOOLEAN, f \in BOOLEAN : StartRun(t, ntc, f)
    \/ Exit
    \/ Crash
    \/ \E accepted \in SUBSET Range(untrusted_specs) : PromptAnswer(accepted)
    \/ PromptFail
    \/ \E i \in DOMAIN tasks : FirstPoll(i)
    \/ \E i \in DOMAIN tasks : ResolveOk(i)
    \/ \E i \in DOMAIN tasks : ResolveFail(i)
    \/ \E i \in DOMAIN tasks : SelectFail(i)
    \/ \E i \in DOMAIN tasks : DownloadOk(i)
    \/ \E i \in DOMAIN tasks : DownloadFail(i)
    \/ \E i \in DOMAIN tasks : ExtractOk(i)
    \/ \E i \in DOMAIN tasks : ExtractFail(i)
    \/ \E i \in DOMAIN tasks : WriteOk(i)
    \/ \E i \in DOMAIN tasks : WriteFail(i)
    \/ BeginLinking
    \/ \E j \in DOMAIN linkTasks : LinkOk(j)
    \/ \E j \in DOMAIN linkTasks : LinkFail(j)
    \/ Finish

Spec == Init /\ [][Next]_all_vars

\* ------------------------------------------------ `rokit self-update`
MaxVersionPart == 1

\* semver::Version, cut down to <<major, minor>>.
Versions == (0..MaxVersionPart) \X (0..MaxVersionPart)

\* Ord of semver::Version: major first, then minor.
VersionGe(a, b) == a[1] > b[1] \/ (a[1] = b[1] /\ a[2] >= b[2])

\* Variant: only the very same version counts as up to date.
is_up_to_date_SameOnly(cur, latest, f) == cur = latest /\ ~f

\* if version_current >= version_latest && !self.force
is_up_to_date(cur, latest, f) == VersionGe(cur, latest) /\ ~f

\* What a self-update does not touch.
UpdateFrame == <<vars, runner_vars>>

\* `rokit self-update` is invoked: the running binary is the one in Storage.
StartUpdate(f) ==
    /\ update_pc = "idle"
    /\ update_pc' = "loading"
    /\ update_force' = f
    /\ version_current' = rokit_contents
    /\ version_latest' = NoVersion
    /\ update_calls' = <<>>
    /\ update_error' = "none"
    /\ UNCHANGED <<rokit_contents, link_contents, UpdateFrame>>

\* An await returned Ok and run goes on to the next one.
UpdateStep(at, to) ==
    /\ update_pc = at
    /\ update_pc' = to
    /\ UNCHANGED <<update_force, version_current, version_latest,
                   rokit_contents, link_contents, update_calls, update_error,
                   UpdateFrame>>

\* An await returned Err and `?` returns it from run.
UpdateFail(at, kind) ==
    /\ update_pc = at
    /\ update_pc' = "err"
    /\ update_error' = kind
    /\ UNCHANGED <<update_force, version_current, version_latest,
                   rokit_contents, link_contents, update_calls, UpdateFrame>>

LoadOk == UpdateStep("loading", "fetching")

LoadFail == UpdateFail("loading", "artifact_source")

\* get_latest_release returned a release; its first artifact gives the
\* latest version, which is compared with the running one.
FetchOk(latest) ==
    /\ update_pc = "fetching"
    /\ version_latest' = latest
    /\ update_pc' = IF is_up_to_date(version_current, latest, update_force)
                    THEN "ok" ELSE "downloading"
    /\ UNCHANGED <<update_force, version_current, rokit_contents,
                   link_contents, update_calls, update_error, UpdateFrame>>

\* get_latest_release returned a release without artifacts: first().unwrap()
\* panics.
FetchEmpty ==
    /\ update_pc = "fetching"
    /\ update_pc' = "panicked"
    /\ update_error' = "panic"
    /\ UNCHANGED <<update_force, version_current, version_latest,
                   rokit_contents, link_contents, update_calls, UpdateFrame>>

FetchFail == UpdateFail("fetching", "release")

\* find_most_compatible_artifact returned None.
NoCompatible == UpdateFail("downloading", "no_compatible_artifact")

UpdateDownloadOk == UpdateStep("downloading", "extracting")

UpdateDownloadFail == UpdateFail("downloading", "download")

UpdateExtractOk == UpdateStep("extracting", "replacing")

UpdateExtractFail == UpdateFail("extracting", "extract")

\* storage.replace_rokit_contents(binary_contents).await
ReplaceRokit ==
    /\ update_pc = "replacing"
    /\ update_pc' = "linking"
    /\ rokit_contents' = version_latest
    /\ update_calls' = Append(update_calls, "replace_rokit_contents")
    /\ UNCHANGED <<update_force, version_current, version_latest,
                   link_contents, update_error, UpdateFrame>>

\* storage.recreate_all_links().await returned Ok.
RecreateOk ==
    /\ update_pc = "linking"
    /\ update_pc' = "changelog"
    /\ link_contents' = rokit_contents
    /\ update_calls' = Append(update_calls, "recreate_all_links")
    /\ UNCHANGED <<update_force, version_current, version_latest,
                   rokit_contents, update_error, UpdateFrame>>

\* storage.recreate_all_links().await returned Err.
RecreateFail ==
    /\ update_pc = "linking"
    /\ update_pc' = "err"
    /\ update_error' = "links"
    /\ update_calls' = Append(update_calls, "recreate_all_links")
    /\ UNCHANGED <<update_force, version_current, version_latest,
                   rokit_contents, link_contents, UpdateFrame>>

\* The changelog part is over (none, declined, or shown): run returns Ok(()).
ChangelogDone == UpdateStep("changelog", "ok")

\* The changelog prompt or its display returned Err.
ChangelogFail == UpdateFail("changelog", "changelog")

\* The self-update process is gone; Storage stays.
UpdateGone ==
    /\ update_pc' = "idle"
    /\ update_force' = FALSE
    /\ version_current' = NoVersion
    /\ version_latest' = NoVersion
    /\ update_calls' = <<>>
    /\ update_error' = "none"
    /\ UNCHANGED <<rokit_contents, link_contents, UpdateFrame>>

UpdateExit ==
    /\ update_pc \in {"ok", "err", "panicked"}
    /\ UpdateGone

\* The process dies in the middle of a self-update.
UpdateCrash ==
    /\ update_pc \in {"loading", "fetching", "downloading", "extracting",
                      "replacing", "linking", "changelog"}
    /\ UpdateGone

SelfUpdateNext ==
    \/ \E f \in BOOLEAN : StartUpdate(f)
    \/ LoadOk
    \/ LoadFail
    \/ \E latest \in Versions : FetchOk(latest)
    \/ FetchEmpty
    \/ FetchFail
    \/ NoCompatible
    \/ UpdateDownloadOk
    \/ UpdateDownloadFail
    \/ UpdateExtractOk
    \/ UpdateExtractFail
    \/ ReplaceRokit
    \/ RecreateOk
    \/ RecreateFail
    \/ ChangelogDone
    \/ ChangelogFail
    \/ UpdateExit
    \/ UpdateCrash

SelfUpdateSpec == Init /\ [][SelfUpdateNext]_all_vars

\* C13: a self-update whose latest release is not newer than the running
\* version, with force unset, replaces nothing and recreates no Link; a
\* self-update calls Storage only when the release is newer or force is set,
\* and then replace_rokit_contents comes first and recreate_all_links second.
C13_UpdateOnlyIfNewer ==
    /\ [](update_calls \in {<<>>, <<"replace_rokit_contents">>,
                            <<"replace_rokit_contents", "recreate_all_links">>})
    /\ [](update_calls # <<>> =>
            (update_force \/ ~VersionGe(version_current, version_latest)))
    /\ [][(/\ version_latest # NoVersion
           /\ ~update_force
           /\ VersionGe(version_current, version_latest)) =>
             /\ rokit_contents' = rokit_contents
             /\ link_contents' = link_contents
             /\ update_calls' = <<>>]_update_vars

\* A self-update without force has returned Ok without touching Storage: the
\* latest release is older than the running version, which an earlier update
\* had installed while the Links still run another version.
C13_Witness ==
    /\ update_pc = "ok"
    /\ ~update_force
    /\ version_latest # NoVersion
    /\ version_latest # version_current
    /\ VersionGe(version_current, version_latest)
    /\ update_calls = <<>>
    /\ link_contents # rokit_contents

\* ------------------------------------------------------- the Dispatcher
MaxSignals == 2

\* env!("CARGO_BIN_NAME")
CARGO_BIN_NAME == "rokit"

\* Names the binary may be invoked as: its own, two declared aliases, an
\* alias no manifest declares, and a name that is no valid alias.
ExeNames == {CARGO_BIN_NAME, "x", "z", "y", "x y"}

\* Arguments that may follow the name.
ArgLists == {<<>>, <<"--version">>}

\* Exit codes of the target.
ChildCodes == {0, 7}

\* The code reserved for a target that died by a signal.
Sentinel == 255

should_run(name) == name # CARGO_BIN_NAME

\* ToolAlias::from_str returns Ok.
ValidAlias(name) == name \in {"x", "z", "y"}

\* The specs discover_tool_spec may return for an alias: those the manifests
\* in scope declare for it.
discover_tool_spec(a, m) == {e[2] : e \in {d \in m : d[1] = a}}

\* A pure function of the spec: no file is looked at.
tool_path(s) == <<"tool_storage", s.id, s.version>>

\* What the Dispatcher does not touch.
RunnerFrame == <<vars, update_vars>>

\* A process is started under some name, with the manifests then in scope.
Invoke(name, rest, m) ==
    /\ runner_pc = "idle"
    /\ runner_pc' = "StartupResolveAlias"
    /\ exe_name' = name
    /\ args' = <<name>> \o rest
    /\ manifests' = m
    /\ child_args' = <<>>
    /\ runner_alias' = "none"
    /\ runner_spec' = NoSpec
    /\ path' = NoPath
    /\ child' = "none"
    /\ child_code' = 0
    /\ received' = 0
    /\ forwarded' = 0
    /\ exit_code' = 0
    /\ runner_error' = "none"
    /\ UNCHANGED RunnerFrame

\* An install run elsewhere completes a pipeline for a spec.
ToolInstalled(s) ==
    /\ storage' = replace_tool_contents(s)
    /\ installed' = add_installed(s)
    /\ UNCHANGED <<trusted, links, tool_aliases, declared, dup, no_trust_check,
                   force, phase, trusted_specs, untrusted_specs,
                   newly_trusted_specs, tasks, linkTasks, result, error,
                   start, after, outside>>

RunnerStep(at, to) ==
    /\ runner_pc = at
    /\ runner_pc' = to
    /\ UNCHANGED <<exe_name, args, manifests, child, child_code, received,
                   forwarded, exit_code, RunnerFrame>>

\* Runner::run returns Err before any target exists.
RunnerFail(at, kind) ==
    /\ RunnerStep(at, "Error")
    /\ runner_error' = kind
    /\ UNCHANGED <<child_args, runner_alias, runner_spec, path>>

\* The process was invoked under its own name: it is the manager, no shim.
NotAShim ==
    /\ ~should_run(exe_name)
    /\ RunnerStep("StartupResolveAlias", "Manager")
    /\ UNCHANGED <<child_args, runner_alias, runner_spec, path, runner_error>>

\* ToolAlias::from_str(&self.exe_name) returned Ok.
ResolveAlias ==
    /\ should_run(exe_name)
    /\ ValidAlias(exe_name)
    /\ RunnerStep("StartupResolveAlias", "LookupSpec")
    /\ runner_alias' = exe_name
    /\ UNCHANGED <<child_args, runner_spec, path, runner_error>>

AliasFail ==
    /\ should_run(exe_name)
    /\ ~ValidAlias(exe_name)
    /\ RunnerFail("StartupResolveAlias", "alias")

\* Home::load_from_env returned Err.
HomeFail == RunnerFail("LookupSpec", "home")

\* discover_tool_spec returned Some(spec).
LookupOk(s) ==
    /\ s \in discover_tool_spec(runner_alias, manifests)
    /\ RunnerStep("LookupSpec", "LocateBinary")
    /\ runner_spec' = s
    /\ UNCHANGED <<child_args, runner_alias, path, runner_error>>

\* Variant: an alias no manifest declares is run as some default spec.
LookupMissing_Fallthrough ==
    /\ discover_tool_spec(runner_alias, manifests) = {}
    /\ RunnerStep("LookupSpec", "LocateBinary")
    /\ runner_spec' = [id |-> "a", version |-> 1]
    /\ UNCHANGED <<child_args, runner_alias, path, runner_error>>

\* discover_tool_spec returned None: "Failed to find tool ... in any project
\* manifest file. Add the tool to a project using 'rokit add' ...".
LookupMissing ==
    /\ discover_tool_spec(runner_alias, manifests) = {}
    /\ RunnerFail("LookupSpec", "not_in_manifest")

\* tool_path(&spec) and args().skip(1)
Locate ==
    /\ RunnerStep("LocateBinary", "Spawn")
    /\ path' = tool_path(runner_spec)
    /\ child_args' = Tail(args)
    /\ UNCHANGED <<runner_alias, runner_spec, runner_error>>

\* run_interruptible spawned the target, whose binary is in Storage.
SpawnOk ==
    /\ runner_pc = "Spawn"
    /\ runner_spec \in storage
    /\ runner_pc' = "Forward"
    /\ child' = "running"
    /\ UNCHANGED <<exe_name, args, child_args, manifests, runner_alias,
                   runner_spec, path, child_code, received, forwarded,
                   exit_code, runner_error, RunnerFrame>>

\* run_interruptible returned Err from the spawn (the binary is missing, or
\* the system refused); inform_user_about_potential_fixes is called.
SpawnFail == RunnerFail("Spawn", "spawn")

\* While waiting, the Dispatcher receives an interrupt or termination signal:
\* it sends it on to the target and goes on waiting.
Signal ==
    /\ runner_pc = "Forward"
    /\ child = "running"
    /\ received < MaxSignals
    /\ received' = received + 1
    /\ forwarded' = forwarded + 1
    /\ UNCHANGED <<runner_pc, exe_name, args, child_args, manifests,
                   runner_alias, runner_spec, path, child, child_code,
                   exit_code, runner_error, RunnerFrame>>

\* The target exits with a code, or is killed by a signal.
ChildEnds(how, c) ==
    /\ runner_pc = "Forward"
    /\ child = "running"
    /\ child' = how
    /\ child_code' = IF how = "exited" THEN c ELSE 0
    /\ UNCHANGED <<runner_pc, exe_name, args, child_args, manifests,
                   runner_alias, runner_spec, path, received, forwarded,
                   exit_code, runner_error, RunnerFrame>>

ChildExits(c) == ChildEnds("exited", c)

ChildKilled == ChildEnds("signaled", 0)

\* What run_interruptible returns once the target is gone.
run_interruptible_code == IF child = "exited" THEN child_code ELSE Sentinel

\* Variant: the Dispatcher returns Ok(()) and the process exits with 0.
RunnerExit_Success ==
    /\ runner_pc = "Forward"
    /\ child # "running"
    /\ runner_pc' = "Exit"
    /\ exit_code' = 0
    /\ UNCHANGED <<exe_name, args, child_args, manifests, runner_alias,
                   runner_spec, path, child, child_code, received, forwarded,
                   runner_error, RunnerFrame>>

\* run_interruptible returned Ok(code); exit(code).
RunnerExit ==
    /\ runner_pc = "Forward"
    /\ child # "running"
    /\ runner_pc' = "Exit"
    /\ exit_code' = run_interruptible_code
    /\ UNCHANGED <<exe_name, args, child_args, manifests, runner_alias,
                   runner_spec, path, child, child_code, received, forwarded,
                   runner_error, RunnerFrame>>

\* The process is gone.
RunnerGone ==
    /\ runner_pc \in {"Exit", "Error", "Manager"}
    /\ runner_pc' = "idle"
    /\ exe_name' = "none"
    /\ args' = <<>>
    /\ child_args' = <<>>
    /\ manifests' = {}
    /\ runner_alias' = "none"
    /\ runner_spec' = NoSpec
    /\ path' = NoPath
    /\ child' = "none"
    /\ child_code' = 0
    /\ received' = 0
    /\ forwarded' = 0
    /\ exit_code' = 0
    /\ runner_error' = "none"
    /\ UNCHANGED RunnerFrame

RunnerNext ==
    \/ \E name \in ExeNames, rest \in ArgLists, m \in SUBSET ManifestEntries :
          Invoke(name, rest, m)
    \/ \E s \in ToolSpecs : ToolInstalled(s)
    \/ NotAShim
    \/ ResolveAlias
    \/ AliasFail
    \/ HomeFail
    \/ \E s \in ToolSpecs : LookupOk(s)
    \/ LookupMissing
    \/ Locate
    \/ SpawnOk
    \/ SpawnFail
    \/ Signal
    \/ \E c \in ChildCodes : ChildExits(c)
    \/ ChildKilled
    \/ RunnerExit
    \/ RunnerGone

RunnerSpec == Init /\ [][RunnerNext]_all_vars

RunnerOrder ==
    { <<"idle", "StartupResolveAlias">>,
      <<"StartupResolveAlias", "LookupSpec">>,
      <<"StartupResolveAlias", "Error">>,
      <<"StartupResolveAlias", "Manager">>,
      <<"LookupSpec", "LocateBinary">>,
      <<"LookupSpec", "Error">>,
      <<"LocateBinary", "Spawn">>,
      <<"Spawn", "Forward">>,
      <<"Spawn", "Error">>,
      <<"Forward", "Exit">>,
      <<"Exit", "idle">>,
      <<"Error", "idle">>,
      <<"Manager", "idle">> }

\* C15: the Dispatcher goes through StartupResolveAlias, LookupSpec,
\* LocateBinary, Spawn, Forward, Exit in that order, leaving it only for an
\* error; a target exists only for a spec the manifests in scope declare for
\* the alias; an alias without manifest entry ends in the user-facing error
\* with no target spawned; and LocateBinary computes the path from the spec
\* and goes on to Spawn whether or not the binary is in Storage.
C15_DispatchOrder ==
    /\ [][runner_pc' # runner_pc => <<runner_pc, runner_pc'>> \in RunnerOrder]_runner_vars
    /\ [](runner_pc \in {"LocateBinary", "Spawn", "Forward", "Exit"} =>
            <<runner_alias, runner_spec>> \in manifests)
    /\ [](child # "none" => runner_pc \in {"Forward", "Exit"})
    /\ [](runner_error = "not_in_manifest" =>
            /\ child = "none"
            /\ path = NoPath
            /\ discover_tool_spec(runner_alias, manifests) = {})
    /\ [][runner_pc = "LocateBinary" =>
             (runner_pc' = "Spawn" /\ path' = tool_path(runner_spec))]_runner_vars

\* The spawn of a declared tool failed: its binary is not in Storage, which
\* nothing had checked before.
C15_Witness ==
    /\ runner_pc = "Error"
    /\ runner_error = "spawn"
    /\ runner_spec \notin storage
    /\ path = tool_path(runner_spec)
    /\ child = "none"

\* ------------------------------------------------------------ properties
TaskSpecs == {tasks[i].spec : i \in DOMAIN tasks}
DeclaredSpecs == {e[2] : e \in declared}
DeclaredAliases == {e[1] : e \in declared}
TasksAt(pcs) == {i \in DOMAIN tasks : tasks[i].pc \in pcs}
SomeTaskFailed == TasksAt({"failed"}) # {}

\* A step in which a create_tool_link is carried out.
LinkStep ==
    \/ links' # links
    \/ \E j \in DOMAIN linkTasks :
          /\ j \in DOMAIN linkTasks'
          /\ linkTasks[j].pc = "new"
          /\ linkTasks'[j].pc = "done"

\* C1: linking is a barrier.  No create_tool_link is carried out unless every
\* install task of the run has completed successfully, and a run in which an
\* install task failed makes no Link at all.
C1_LinkBarrier ==
    /\ [][LinkStep => (phase = "link" /\ AllDone(tasks))]_vars
    /\ [](SomeTaskFailed => (linkTasks = <<>> /\ links = start.links))

\* A link has been made in a run of three tasks, one of which fetched.
C1_Witness ==
    /\ phase = "link"
    /\ Len(tasks) = 3
    /\ TasksAt({"done"}) # {}
    /\ \E j \in DOMAIN linkTasks : linkTasks[j].pc = "done"

\* A run over three specs, none installed before, has ended with exactly one
\* failed pipeline.
ThreeSpecsOneFailed ==
    /\ phase = "ended"
    /\ Len(tasks) = 3
    /\ TaskSpecs \cap start.installed = {}
    /\ Cardinality(TasksAt({"failed"})) = 1

C3_SuccessOnlyIfAll ==
    /\ (phase = "ended" /\ result = "ok") =>
          /\ \A i \in DOMAIN tasks :
                /\ Finished(tasks[i])
                /\ tasks[i].spec \in installed
                /\ tasks[i].spec \in storage
          /\ \A a \in DeclaredAliases :
                /\ a \in links
                /\ \E j \in DOMAIN linkTasks :
                      linkTasks[j].alias = a /\ linkTasks[j].pc = "done"
    /\ \A i \in DOMAIN tasks :
          tasks[i].pc = "failed" =>
              /\ phase = "ended"
              /\ result = "err"
              /\ error[2] = tasks[i].spec
              /\ linkTasks = <<>>

\* A run ended in failure although another of its pipelines had succeeded.
C3_Witness ==
    /\ phase = "ended"
    /\ result = "err"
    /\ SomeTaskFailed
    /\ TasksAt({"done"}) # {}

\* Pipeline positions in which a task has asked for a release or gone further.
Fetching == {"resolve", "download", "extract", "write", "done", "failed"}

\* C4: a spec is marked installed by its own task right after its write: a
\* task that has completed has its spec in the installed set with its bytes in
\* Storage, the end of a run (failure, exit or crash) takes nothing out of
\* either, and a retry with the same manifests and no force does no release
\* lookup or download for a spec that was installed when the retry started.
C4_MarkedByOwnTask ==
    /\ [](\A i \in DOMAIN tasks :
            tasks[i].pc = "done" =>
                tasks[i].spec \in installed /\ tasks[i].spec \in storage)
    /\ [][phase' \in {"ended", "idle"} =>
            (installed \subseteq installed' /\ storage \subseteq storage')]_vars
    /\ []((after \in {"err", "crashed"} /\ ~force) =>
            \A i \in DOMAIN tasks :
                tasks[i].spec \in start.installed => tasks[i].pc \notin Fetching)

\* In the retry of a failed run one spec is skipped as installed while another
\* is being fetched again.
C4_Witness ==
    /\ after = "err"
    /\ ~force
    /\ \E i \in TasksAt({"skipped"}) : tasks[i].spec \in start.installed
    /\ TasksAt({"resolve"}) # {}

Unchanged(field) ==
    CASE field = "trusted" -> trusted = start.trusted
      [] field = "installed" -> installed = start.installed
      [] field = "storage" -> storage = start.storage
      [] field = "links" -> links = start.links

\* C5 as stated: a run that repeats the manifests of a successful run, without
\* force, looks up, downloads, extracts and writes nothing and leaves the
\* trusted set, the installed set, Storage and the Links as they were.
C5_Original ==
    (after = "ok" /\ ~force) =>
        /\ \A i \in DOMAIN tasks : tasks[i].pc \notin Fetching
        /\ Unchanged("trusted")
        /\ Unchanged("installed")
        /\ Unchanged("storage")
        /\ Unchanged("links")

\* C5 amended: if moreover no declared spec was left uninstalled by the first
\* run (none was rejected at its prompt), the second run fetches and writes
\* nothing and leaves the installed set, Storage and the Links unchanged; the
\* trusted set is unchanged too when the second run skips the trust check or
\* every declared ToolId was already trusted (otherwise the prompt of the
\* second run may add the ToolIds the user accepts).
C5_Idempotent ==
    (after = "ok" /\ ~force /\ DeclaredSpecs \subseteq start.installed) =>
        /\ \A i \in DOMAIN tasks : tasks[i].pc \in {"new", "skipped"}
        /\ Unchanged("installed")
        /\ Unchanged("storage")
        /\ Unchanged("links")
        /\ (no_trust_check \/ {s.id : s \in DeclaredSpecs} \subseteq start.trusted)
              => Unchanged("trusted")

\* The repeated run has returned Ok over two specs, both skipped.
C5_Witness ==
    /\ after = "ok"
    /\ ~force
    /\ phase = "ended"
    /\ result = "ok"
    /\ Cardinality(TasksAt({"skipped"})) >= 2
    /\ DeclaredSpecs \subseteq start.installed

\* C6: the trusted set never loses a ToolId, and the batch handed to the trust
\* prompt holds no spec, of any version, whose ToolId was trusted when the run
\* started.
C6_TrustMonotone ==
    /\ [][trusted \subseteq trusted']_vars
    /\ [](\A s \in Range(untrusted_specs) : s.id \notin start.trusted)

\* A later run is at its prompt: ToolId "a" is trusted, version 2 of it is
\* declared and is not in the batch, while a spec of another ToolId is.
C6_Witness ==
    /\ phase = "prompt"
    /\ "a" \in start.trusted
    /\ [id |-> "a", version |-> 2] \in Range(trusted_specs)
    /\ [id |-> "a", version |-> 2] \notin Range(untrusted_specs)
    /\ [id |-> "b", version |-> 1] \in Range(untrusted_specs)

\* The prompt of this run has been answered.
Answered == ~no_trust_check /\ phase \in {"install", "link", "ended"} /\
            (phase = "ended" => error[1] # "prompt")

Rejected == Range(untrusted_specs) \ Range(newly_trusted_specs)

\* Neither a task nor an installed mark was made for spec s in this run.
NotInstalledThisRun(s) ==
    /\ s \notin TaskSpecs
    /\ s \in installed => s \in start.installed

\* C7 as stated: a spec rejected at the prompt gets no pipeline step, is not
\* added to the installed set, and its ToolId is not recorded as trusted in
\* that run, also when another version of the ToolId is accepted.
C7_Original ==
    Answered =>
        \A s \in Rejected : NotInstalledThisRun(s) /\ s.id \notin trusted

\* C7 amended: a spec rejected at the prompt gets no pipeline step and is not
\* added to the installed set; its ToolId is recorded as trusted in that run
\* only if another version of the same ToolId was accepted in the same prompt.
C7_RejectedDropped ==
    Answered =>
        \A s \in Rejected :
            /\ NotInstalledThisRun(s)
            /\ s.id \in trusted =>
                  \E a \in Range(newly_trusted_specs) : a.id = s.id /\ a # s

\* Version 1 of "a" was accepted and installed, version 2 rejected.
C7_Witness ==
    /\ Answered
    /\ [id |-> "a", version |-> 2] \in Rejected
    /\ [id |-> "a", version |-> 1] \in Range(newly_trusted_specs)
    /\ \E i \in TasksAt({"done"}) : tasks[i].spec = [id |-> "a", version |-> 1]

\* C8: every installed spec has its bytes in Storage, in every reachable
\* state: while tasks interleave, after failures at any step, and while or
\* after an installed spec is reinstalled with force.
C8_InstalledHasBytes == installed \subseteq storage

\* The write of a forced reinstall of an installed spec has failed.
C8_Witness ==
    /\ phase = "ended"
    /\ force
    /\ error[1] = "write"
    /\ error[2] \in start.installed
    /\ error[2] \in installed

LinkTasksFor(a) == {j \in DOMAIN linkTasks : linkTasks[j].alias = a}

\* C9: when a run has returned Ok, every declared alias has its Link, made by
\* exactly one create_tool_link of this run, whether its spec was fetched in
\* this run or skipped as installed.
C9_AliasesLinked ==
    (phase = "ended" /\ result = "ok") =>
        \A a \in DeclaredAliases :
            /\ a \in links
            /\ Cardinality(LinkTasksFor(a)) = 1
            /\ \A j \in LinkTasksFor(a) : linkTasks[j].pc = "done"

\* A run returned Ok with one spec fetched and another skipped.
C9_Witness ==
    /\ phase = "ended"
    /\ result = "ok"
    /\ TasksAt({"done"}) # {}
    /\ TasksAt({"skipped"}) # {}
    /\ Cardinality(DeclaredAliases) >= 2

\* The specs the trust gate lets through.
InstallSet ==
    IF no_trust_check THEN DeclaredSpecs
    ELSE Range(trusted_specs) \cup Range(newly_trusted_specs)

\* The install stream of this run has been built.
StreamBuilt ==
    \/ phase \in {"install", "link"}
    \/ phase = "ended" /\ error[1] # "prompt"

\* C10: when a pair is declared by more than one manifest, the run has exactly
\* one install task for each spec of its install set (so at most one lookup
\* and one download of it) and exactly one create_tool_link for each alias.
C10_Dedup ==
    (dup /\ StreamBuilt) =>
        /\ \A s \in InstallSet : Cardinality({i \in DOMAIN tasks : tasks[i].spec = s}) = 1
        /\ TaskSpecs \subseteq InstallSet
        /\ linkTasks # <<>> =>
              \A a \in DeclaredAliases : Cardinality(LinkTasksFor(a)) = 1

\* A pair declared twice was fetched once and linked once; the run returned Ok.
C10_Witness ==
    /\ dup
    /\ phase = "ended"
    /\ result = "ok"
    /\ Len(tasks) = 1
    /\ tasks[1].pc = "done"
    /\ Len(linkTasks) = 1

\* C11: over every step of an install run, also one that fails, ends or
\* crashes, the trusted set and the installed set only grow.
C11_LedgerMonotone ==
    [][trusted \subseteq trusted' /\ installed \subseteq installed']_vars

\* The write of a forced reinstall has failed in a run that had already added
\* a ToolId to the trusted set and a spec to the installed set.
C11_Witness ==
    /\ phase = "ended"
    /\ error[1] = "write"
    /\ error[2] \in installed
    /\ trusted # start.trusted
    /\ installed # start.installed

\* C12: when the trust prompt fails the run ends with that error with no
\* install task and no link task ever created (so no release lookup and no
\* download), and with the trusted set, the installed set, Storage and the
\* Links as they were when the run started.
C12_PromptFailAborts ==
    (phase = "ended" /\ error[1] = "prompt") =>
        /\ result = "err"
        /\ tasks = <<>>
        /\ linkTasks = <<>>
        /\ Snapshot = start

\* The prompt failed over a batch of two specs while a trusted spec was
\* waiting to be installed.
C12_Witness ==
    /\ phase = "ended"
    /\ error[1] = "prompt"
    /\ Len(untrusted_specs) = 2
    /\ Len(trusted_specs) = 1
    /\ Range(trusted_specs) \cap installed = {}

C17_ForceKeepsTrustGate ==
    (force /\ ~no_trust_check) =>
        /\ \A s \in DeclaredSpecs :
              (s.id \notin start.trusted /\ s \notin Range(newly_trusted_specs))
                  => NotInstalledThisRun(s)
        /\ TasksAt({"skipped"}) = {}
        /\ StreamBuilt => TaskSpecs = InstallSet
        /\ (phase = "ended" /\ result = "ok") => TasksAt({"done"}) = DOMAIN tasks

\* A forced run returned Ok: an installed spec was fetched again, another
\* spec was rejected at the prompt.
C17_Witness ==
    /\ force
    /\ ~no_trust_check
    /\ phase = "ended"
    /\ result = "ok"
    /\ Rejected # {}
    /\ \E i \in TasksAt({"done"}) : tasks[i].spec \in start.installed

\* Variant: only the specs fetched in this run are counted.
installed_specs_len_FetchedOnly == Cardinality(TasksAt({"done"}))

\* installed_specs.len(), the count in the message of a successful run.
installed_specs_len == Len(tasks)

\* C18: when a run has returned Ok, the trusted set, the installed set,
\* Storage, the Links, which tasks were skipped, and the reported count are
\* determined by the state at the start, the declared pairs, the flags and the
\* prompt's answer alone, whatever the interleaving was; the count is the
\* number of distinct specs of the install set, skipped ones included.
C18_Deterministic ==
    (phase = "ended" /\ result = "ok") =>
        /\ trusted = start.trusted \cup {s.id : s \in Range(newly_trusted_specs)}
        /\ installed = start.installed \cup InstallSet
        /\ storage = start.storage \cup InstallSet
        /\ links = start.links \cup DeclaredAliases
        /\ installed_specs_len = Cardinality(InstallSet)
        /\ \A i \in DOMAIN tasks :
              tasks[i].pc = "skipped" <=> (tasks[i].spec \in start.installed /\ ~force)

\* A run over three specs returned Ok: two were fetched, one was skipped.
C18_Witness ==
    /\ phase = "ended"
    /\ result = "ok"
    /\ Len(tasks) = 3
    /\ Cardinality(TasksAt({"done"})) = 2
    /\ Cardinality(TasksAt({"skipped"})) = 1

\* C19: a run with no_trust_check never is at the prompt, has no batch, leaves
\* the trusted set as it was and gives every declared spec a task; and a run
\* that does check trust puts every declared spec of a ToolId that is not
\* trusted into the prompt's batch, installed or not.
C19_NoTrustCheck ==
    /\ no_trust_check =>
          /\ phase # "prompt"
          /\ untrusted_specs = <<>>
          /\ Unchanged("trusted")
          /\ StreamBuilt => TaskSpecs = DeclaredSpecs
    /\ phase = "prompt" =>
          \A s \in DeclaredSpecs :
              s.id \notin trusted => s \in Range(untrusted_specs)

\* A spec that is installed, which only a run without trust check can have
\* done for an untrusted ToolId, is in the batch of a later run's prompt.
C19_Witness ==
    /\ phase = "prompt"
    /\ \E s \in Range(untrusted_specs) : s \in installed /\ s.id \notin trusted

\* C20 as stated: when a run has returned Ok, every alias it linked has a
\* declared spec in the installed set.
C20_Original ==
    (phase = "ended" /\ result = "ok") =>
        \A j \in DOMAIN linkTasks :
            linkTasks[j].pc = "done" =>
                \E e \in declared : e[1] = linkTasks[j].alias /\ e[2] \in installed

\* C20 amended: when a run has returned Ok, every declared pair whose spec
\* passed the trust gate has that spec installed; a pair whose spec did not
\* pass was rejected at the prompt, got no task and no installed mark, and its
\* alias was linked all the same.
C20_LinkedUnlessRejected ==
    (phase = "ended" /\ result = "ok") =>
        \A e \in declared :
            /\ e[2] \in InstallSet => e[2] \in installed
            /\ e[2] \notin InstallSet =>
                  /\ e[2] \in Rejected
                  /\ NotInstalledThisRun(e[2])
                  /\ e[1] \in links
                  /\ \E j \in LinkTasksFor(e[1]) : linkTasks[j].pc = "done"

\* Alias "z" was linked by a run that returned Ok although its only declared
\* spec was rejected at the prompt and is not installed.
C20_Witness ==
    /\ phase = "ended"
    /\ result = "ok"
    /\ [id |-> "b", version |-> 1] \in Rejected
    /\ [id |-> "b", version |-> 1] \notin installed
    /\ "z" \in links
    /\ "z" \notin start.links

TypeOK ==
    /\ trusted \subseteq ToolIds
    /\ installed \subseteq ToolSpecs
    /\ storage \subseteq ToolSpecs
    /\ links \subseteq ToolAliases
    /\ phase \in {"idle", "prompt", "install", "link", "ended"}
    /\ result \in {"none", "ok", "err", "crashed"}
    /\ after \in {"other", "ok", "err", "crashed"}
====
